---- MODULE Spec2Model ----
(***************************************************************************)
(* Model of the /search handler of src/main.py: the construction of the    *)
(* aggregation stages from the request parameters (lines 36-135) and the   *)
(* pipeline that is handed to the database (lines 137-150).                *)
(*                                                                         *)
(* Python values are modelled as follows.  An optional parameter is a      *)
(* sequence of length at most one: <<>> is None, <<v>> is the value v.     *)
(* A call that can raise returns <<>> when it raises and <<v>> when it     *)
(* yields v.  A dict is a record, a list is a sequence.                    *)
(***************************************************************************)
EXTENDS Integers, Sequences, FiniteSets, TLC

VARIABLES workload, pc, req, should, must, filters, stages, pipeline

vars == <<workload, pc, req, should, must, filters, stages, pipeline>>

(* ------------------------------ bounds --------------------------------- *)
MaxPage == 2
MaxYears == 2
NumHandlers == 2

(* ------------------------- program constants --------------------------- *)
DefaultPageNumber == 1
DefaultPageSize == 30
MaxEdits == 1
Ascending == 1

None == <<>>
Some(v) == <<v>>
Opt(S) == {None} \cup {Some(v) : v \in S}

searchPaths == <<"name", "description", "keywords">>
highlightPaths == <<"name", "description", "keywords", "creator.@list.name">>
autoCompletePaths == <<"name", "description", "keywords">>

(* ------------------------------ inputs --------------------------------- *)
Years == 2010..(2009 + MaxYears)
PageNumbers == 0..MaxPage
PageSizes == {0, 10}
Terms == {"", "climate"}

\* The query parameters as they arrive: every parameter but term may be left out.
WideInputs ==
    [term : Terms,
     sortBy : Opt({"datePublished"}),
     contentType : Opt({"Dataset"}),
     providerName : Opt({"CUAHSI"}),
     creatorName : Opt({"", "NOAA"}),
     dataCoverageStart : Opt(Years),
     dataCoverageEnd : Opt(Years),
     publishedStart : Opt(Years),
     publishedEnd : Opt(Years),
     pageNumber : Opt(PageNumbers),
     pageSize : Opt(PageSizes)]

NarrowInputs ==
    [term : {"climate", "soil"},
     sortBy : {None},
     contentType : {None},
     providerName : {None},
     creatorName : Opt({"NOAA"}),
     dataCoverageStart : {None},
     dataCoverageEnd : {None},
     publishedStart : Opt({2010}),
     publishedEnd : {None},
     pageNumber : {None},
     pageSize : {None}]

Inputs(w) == IF w = "single" THEN WideInputs ELSE NarrowInputs

\* Parameter binding of the signature: a parameter left out takes its default.
Bind(raw) ==
    [raw EXCEPT
       !.pageNumber = IF raw.pageNumber = None THEN DefaultPageNumber
                      ELSE raw.pageNumber[1],
       !.pageSize = IF raw.pageSize = None THEN DefaultPageSize
                    ELSE raw.pageSize[1]]

NoRequest == [term |-> ""]

(* -------------------------- Python primitives -------------------------- *)
\* `if x:` on an optional str / int parameter.
TruthyStr(o) == o # None /\ o[1] # ""
TruthyInt(o) == o # None /\ o[1] # 0

\* datetime(*args): year, month and day are required positional arguments.
datetime(args) ==
    IF Len(args) < 3 THEN <<>>
    ELSE Some([year |-> args[1], month |-> args[2], day |-> args[3]])

\* o + 1 on an optional int: None + 1 raises TypeError.
PlusOne(o) == IF o = None THEN <<>> ELSE Some(o[1] + 1)

\* A list is unhashable and cannot be a dict key.
Hashable(v) == v.type # "list"
PyList(items) == [type |-> "list", items |-> items]

(* --------------------------- clause builders --------------------------- *)
AutocompleteClause(term, key) ==
    [kind |-> "autocomplete", query |-> term, path |-> key, maxEdits |-> MaxEdits]

ShouldOf(term) ==
    [i \in 1..Len(autoCompletePaths) |-> AutocompleteClause(term, autoCompletePaths[i])]

TextClause(path, query) == [kind |-> "text", path |-> path, query |-> query]

\* Lines 48-54: the dict literal is evaluated left to right.
PublishedRange(r) ==
    LET gte == datetime(<<r.publishedStart[1]>>)
        end == PlusOne(r.publishedEnd)
    IN  IF gte = <<>> THEN <<>>
        ELSE IF end = <<>> THEN <<>>
        ELSE LET lt == datetime(<<end[1]>>)
             IN  IF lt = <<>> THEN <<>>
                 ELSE Some([kind |-> "range", path |-> "datePublished",
                            gte |-> gte, lt |-> lt])

\* Lines 57-62.
CoverageStartRange(r) ==
    LET gte == datetime(<<r.dataCoverageStart[1]>>)
    IN  IF gte = <<>> THEN <<>>
        ELSE Some([kind |-> "range", path |-> "temporalCoverage.start",
                   gte |-> gte, lt |-> None])

\* Lines 65-70.
CoverageEndRange(r) ==
    LET end == PlusOne(r.dataCoverageEnd)
    IN  IF end = <<>> THEN <<>>
        ELSE LET gte == datetime(<<end[1]>>)
             IN  IF gte = <<>> THEN <<>>
                 ELSE Some([kind |-> "range", path |-> "temporalCoverage.end",
                            gte |-> gte, lt |-> None])

SearchStage(f, s, m) ==
    [op |-> "$search", index |-> "fuzzy_search", filter |-> f, should |-> s,
     must |-> m, highlight |-> highlightPaths]

\* Lines 112-116: { [sortBy]: 1 } uses the list [sortBy] as the dict key.
SortStage(sortBy) ==
    LET key == PyList(<<sortBy>>)
    IN  IF Hashable(key) THEN Some([op |-> "$sort", key |-> key, dir |-> Ascending])
        ELSE <<>>

\* Mutant: the page number is not reduced by one.
SkipCountFromPage(pageNumber, pageSize) == pageNumber * pageSize

SkipCount(pageNumber, pageSize) == (pageNumber - 1) * pageSize

SkipStage(r) == [op |-> "$skip", n |-> SkipCount(r.pageNumber, r.pageSize)]

LimitStage(r) == [op |-> "$limit", n |-> r.pageSize]

SetStage == [op |-> "$set", score |-> "searchScore", highlights |-> "searchHighlights"]

\* Lines 137-149: the pipeline literal.
PipelineOf(term) ==
    <<[op |-> "$search", index |-> "fuzzy_search",
       text |-> [query |-> term, path |-> <<"description", "name", "keywords">>]]>>

(* ------------------------------- state --------------------------------- *)
Handlers(w) == IF w = "single" THEN {1} ELSE 1..NumHandlers

InitFor(w) ==
    /\ workload = w
    /\ pc = [h \in Handlers(w) |-> "idle"]
    /\ req = [h \in Handlers(w) |-> NoRequest]
    /\ should = [h \in Handlers(w) |-> <<>>]
    /\ must = [h \in Handlers(w) |-> <<>>]
    /\ filters = [h \in Handlers(w) |-> <<>>]
    /\ stages = [h \in Handlers(w) |-> <<>>]
    /\ pipeline = [h \in Handlers(w) |-> <<>>]

Init == InitFor("single")

InitConc == InitFor("concurrent")

\* Control moves on; a raise leaves the locals as they are.
Goto(h, label) == pc' = [pc EXCEPT ![h] = label]

(* ------------------------------ actions -------------------------------- *)
\* Lines 36-45: the call binds the parameters and creates the local lists.
Call(h, raw) ==
    /\ req' = [req EXCEPT ![h] = Bind(raw)]
    /\ should' = [should EXCEPT ![h] = ShouldOf(raw.term)]
    /\ must' = [must EXCEPT ![h] = <<>>]
    /\ stages' = [stages EXCEPT ![h] = <<>>]
    /\ filters' = [filters EXCEPT ![h] = <<>>]
    /\ Goto(h, "published")
    /\ UNCHANGED <<workload, pipeline>>

\* Line 35: a GET /search request is routed to the handler.
Receive(h) ==
    /\ pc[h] = "idle"
    /\ \E raw \in Inputs(workload) : Call(h, raw)

\* Lines 47-54.
PublishedFilter(h) ==
    /\ pc[h] = "published"
    /\ IF TruthyInt(req[h].publishedStart)
       THEN LET c == PublishedRange(req[h])
            IN  IF c = <<>>
                THEN Goto(h, "raised") /\ UNCHANGED filters
                ELSE /\ filters' = [filters EXCEPT ![h] = Append(@, c[1])]
                     /\ Goto(h, "coverageStart")
       ELSE Goto(h, "coverageStart") /\ UNCHANGED filters
    /\ UNCHANGED <<workload, req, should, must, stages, pipeline>>

\* Lines 56-62.
CoverageStartFilter(h) ==
    /\ pc[h] = "coverageStart"
    /\ IF TruthyInt(req[h].dataCoverageStart)
       THEN LET c == CoverageStartRange(req[h])
            IN  IF c = <<>>
                THEN Goto(h, "raised") /\ UNCHANGED filters
                ELSE /\ filters' = [filters EXCEPT ![h] = Append(@, c[1])]
                     /\ Goto(h, "coverageEnd")
       ELSE Goto(h, "coverageEnd") /\ UNCHANGED filters
    /\ UNCHANGED <<workload, req, should, must, stages, pipeline>>

\* Lines 64-70: guarded by dataCoverageStart, like the clause before it.
CoverageEndFilter(h) ==
    /\ pc[h] = "coverageEnd"
    /\ IF TruthyInt(req[h].dataCoverageStart)
       THEN LET c == CoverageEndRange(req[h])
            IN  IF c = <<>>
                THEN Goto(h, "raised") /\ UNCHANGED filters
                ELSE /\ filters' = [filters EXCEPT ![h] = Append(@, c[1])]
                     /\ Goto(h, "creator")
       ELSE Goto(h, "creator") /\ UNCHANGED filters
    /\ UNCHANGED <<workload, req, should, must, stages, pipeline>>

\* Mutant: the guard is `is not None`, so an empty name yields a clause.
CreatorMustNotNone(h) ==
    /\ pc[h] = "creator"
    /\ must' = IF req[h].creatorName # None
               THEN [must EXCEPT ![h] =
                        Append(@, TextClause("creator.@list.name", req[h].creatorName[1]))]
               ELSE must
    /\ Goto(h, "provider")
    /\ UNCHANGED <<workload, req, should, filters, stages, pipeline>>

\* Mutant: the must list is one list shared by all calls.
CreatorMustShared(h) ==
    /\ pc[h] = "creator"
    /\ must' = IF TruthyStr(req[h].creatorName)
               THEN [g \in DOMAIN must |->
                        Append(must[g],
                               TextClause("creator.@list.name", req[h].creatorName[1]))]
               ELSE must
    /\ Goto(h, "provider")
    /\ UNCHANGED <<workload, req, should, filters, stages, pipeline>>

\* Lines 72-78.
CreatorMust(h) ==
    /\ pc[h] = "creator"
    /\ must' = IF TruthyStr(req[h].creatorName)
               THEN [must EXCEPT ![h] =
                        Append(@, TextClause("creator.@list.name", req[h].creatorName[1]))]
               ELSE must
    /\ Goto(h, "provider")
    /\ UNCHANGED <<workload, req, should, filters, stages, pipeline>>

\* Mutant: the path is copied from the creator clause.
ProviderMustCreatorPath(h) ==
    /\ pc[h] = "provider"
    /\ must' = IF TruthyStr(req[h].providerName)
               THEN [must EXCEPT ![h] =
                        Append(@, TextClause("creator.@list.name", req[h].providerName[1]))]
               ELSE must
    /\ Goto(h, "contentType")
    /\ UNCHANGED <<workload, req, should, filters, stages, pipeline>>

\* Lines 80-86.
ProviderMust(h) ==
    /\ pc[h] = "provider"
    /\ must' = IF TruthyStr(req[h].providerName)
               THEN [must EXCEPT ![h] =
                        Append(@, TextClause("provider.name", req[h].providerName[1]))]
               ELSE must
    /\ Goto(h, "contentType")
    /\ UNCHANGED <<workload, req, should, filters, stages, pipeline>>

\* Lines 88-94.
ContentTypeMust(h) ==
    /\ pc[h] = "contentType"
    /\ must' = IF TruthyStr(req[h].contentType)
               THEN [must EXCEPT ![h] =
                        Append(@, TextClause("@type", req[h].contentType[1]))]
               ELSE must
    /\ Goto(h, "search")
    /\ UNCHANGED <<workload, req, should, filters, stages, pipeline>>

\* Lines 96-108.
AppendSearch(h) ==
    /\ pc[h] = "search"
    /\ stages' = [stages EXCEPT ![h] =
                     Append(@, SearchStage(filters[h], should[h], must[h]))]
    /\ Goto(h, "sort")
    /\ UNCHANGED <<workload, req, should, must, filters, pipeline>>

\* Lines 110-116.
AppendSort(h) ==
    /\ pc[h] = "sort"
    /\ IF TruthyStr(req[h].sortBy)
       THEN LET s == SortStage(req[h].sortBy[1])
            IN  IF s = <<>>
                THEN Goto(h, "raised") /\ UNCHANGED stages
                ELSE /\ stages' = [stages EXCEPT ![h] = Append(@, s[1])]
                     /\ Goto(h, "skip")
       ELSE Goto(h, "skip") /\ UNCHANGED stages
    /\ UNCHANGED <<workload, req, should, must, filters, pipeline>>

\* Lines 118-122.
AppendSkip(h) ==
    /\ pc[h] = "skip"
    /\ stages' = [stages EXCEPT ![h] = Append(@, SkipStage(req[h]))]
    /\ Goto(h, "limit")
    /\ UNCHANGED <<workload, req, should, must, filters, pipeline>>

\* Lines 123-127.
AppendLimit(h) ==
    /\ pc[h] = "limit"
    /\ stages' = [stages EXCEPT ![h] = Append(@, LimitStage(req[h]))]
    /\ Goto(h, "set")
    /\ UNCHANGED <<workload, req, should, must, filters, pipeline>>

\* Lines 128-135.
AppendSet(h) ==
    /\ pc[h] = "set"
    /\ stages' = [stages EXCEPT ![h] = Append(@, SetStage)]
    /\ Goto(h, "aggregate")
    /\ UNCHANGED <<workload, req, should, must, filters, pipeline>>

\* Lines 137-150: the pipeline literal is built and passed to aggregate();
\* the handler then waits for the database.
Aggregate(h) ==
    /\ pc[h] = "aggregate"
    /\ pipeline' = [pipeline EXCEPT ![h] = PipelineOf(req[h].term)]
    /\ Goto(h, "await")
    /\ UNCHANGED <<workload, req, should, must, filters, stages>>

\* The frame of a call that returned or raised is gone.
Discard(h) ==
    /\ req' = [req EXCEPT ![h] = NoRequest]
    /\ should' = [should EXCEPT ![h] = <<>>]
    /\ must' = [must EXCEPT ![h] = <<>>]
    /\ filters' = [filters EXCEPT ![h] = <<>>]
    /\ stages' = [stages EXCEPT ![h] = <<>>]
    /\ pipeline' = [pipeline EXCEPT ![h] = <<>>]
    /\ Goto(h, "idle")
    /\ UNCHANGED workload

\* Line 150: to_list() completes and the handler returns the result.
Return(h) ==
    /\ pc[h] = "await"
    /\ Discard(h)

\* The TypeError propagates out of the handler.
Propagate(h) ==
    /\ pc[h] = "raised"
    /\ Discard(h)

Next ==
    \E h \in DOMAIN pc :
        \/ Receive(h)
        \/ PublishedFilter(h)
        \/ CoverageStartFilter(h)
        \/ CoverageEndFilter(h)
        \/ CreatorMust(h)
        \/ ProviderMust(h)
        \/ ContentTypeMust(h)
        \/ AppendSearch(h)
        \/ AppendSort(h)
        \/ AppendSkip(h)
        \/ AppendLimit(h)
        \/ AppendSet(h)
        \/ Aggregate(h)
        \/ Return(h)
        \/ Propagate(h)

Spec == Init /\ [][Next]_vars

SpecConc == InitConc /\ [][Next]_vars

(* ---------------- the handler as one function of the request ----------- *)
\* Lines 47-70 run alone: <<>> when a clause raises, else Some(filters).
FiltersOf(r) ==
    LET p == IF TruthyInt(r.publishedStart) THEN PublishedRange(r) ELSE None
        s == IF TruthyInt(r.dataCoverageStart) THEN CoverageStartRange(r) ELSE None
        e == IF TruthyInt(r.dataCoverageStart) THEN CoverageEndRange(r) ELSE None
    IN  IF TruthyInt(r.publishedStart) /\ p = <<>> THEN <<>>
        ELSE IF TruthyInt(r.dataCoverageStart) /\ (s = <<>> \/ e = <<>>) THEN <<>>
        ELSE Some(p \o s \o e)

\* Lines 72-94 run alone.
MustOf(r) ==
    (IF TruthyStr(r.creatorName)
     THEN <<TextClause("creator.@list.name", r.creatorName[1])>> ELSE <<>>)
    \o (IF TruthyStr(r.providerName)
        THEN <<TextClause("provider.name", r.providerName[1])>> ELSE <<>>)
    \o (IF TruthyStr(r.contentType)
        THEN <<TextClause("@type", r.contentType[1])>> ELSE <<>>)

\* Lines 36-135 run alone: <<>> when the call raises, else Some(stages).
Compile(r) ==
    LET f == FiltersOf(r)
        sort == IF TruthyStr(r.sortBy) THEN SortStage(r.sortBy[1]) ELSE None
    IN  IF f = <<>> THEN <<>>
        ELSE IF TruthyStr(r.sortBy) /\ sort = <<>> THEN <<>>
        ELSE Some(<<SearchStage(f[1], ShouldOf(r.term), MustOf(r))>>
                  \o sort
                  \o <<SkipStage(r), LimitStage(r), SetStage>>)

(* ------------------------------ claims --------------------------------- *)
H == DOMAIN pc

\* The stage list of h is complete: control is past line 135.
Built(h) == pc[h] \in {"aggregate", "await"}

\* h has passed lines 47-70, or stopped in them.
PastFilters(h) == pc[h] \notin {"idle", "published", "coverageStart", "coverageEnd"}

Ops(seq) == [i \in 1..Len(seq) |-> seq[i].op]

StartOfYear(y) == [year |-> y, month |-> 1, day |-> 1]

\* The clause lists of h: the locals, and those inside its search stage.
ClauseLists(h) ==
    <<filters[h], must[h]>>
    \o (IF Len(stages[h]) > 0 THEN <<stages[h][1].filter, stages[h][1].must>> ELSE <<>>)

\* No clause of h targets `path`.
NoClauseOn(h, path) ==
    \A k \in 1..Len(ClauseLists(h)) :
        \A i \in 1..Len(ClauseLists(h)[k]) : ClauseLists(h)[k][i].path # path

\* A request as the parameter declarations and the data model admit it.
WellTyped(r) == r.term # "" /\ r.pageNumber > 0 /\ r.pageSize > 0

\* C1: for a well-typed request, once stage building has begun and the call has come to its end, the
\* stages are search, sort exactly when sortBy was supplied (ascending on that
\* field), skip, limit, annotate, in this order.
C1_StageOrder ==
    \A h \in H :
        (pc[h] \in {"aggregate", "await", "raised"} /\ Len(stages[h]) > 0
         /\ WellTyped(req[h])) =>
            IF req[h].sortBy # None
            THEN /\ Ops(stages[h]) = <<"$search", "$sort", "$skip", "$limit", "$set">>
                 /\ stages[h][2].key = req[h].sortBy[1]
                 /\ stages[h][2].dir = Ascending
            ELSE Ops(stages[h]) = <<"$search", "$skip", "$limit", "$set">>

\* C2: a parameter that is left unset contributes no clause on its target path
\* and no sort stage; no text clause carries an empty query; a clause on the
\* publication date has no upper bound unless publishedEnd was supplied.
C2_AbsenceOmission ==
    \A h \in H :
        pc[h] # "idle" =>
            /\ req[h].contentType = None => NoClauseOn(h, "@type")
            /\ req[h].providerName = None => NoClauseOn(h, "provider.name")
            /\ req[h].creatorName = None => NoClauseOn(h, "creator.@list.name")
            /\ req[h].dataCoverageStart = None => NoClauseOn(h, "temporalCoverage.start")
            /\ req[h].dataCoverageEnd = None => NoClauseOn(h, "temporalCoverage.end")
            /\ req[h].publishedStart = None => NoClauseOn(h, "datePublished")
            /\ req[h].publishedEnd = None =>
                   \A k \in 1..Len(ClauseLists(h)) :
                       \A i \in 1..Len(ClauseLists(h)[k]) :
                           ClauseLists(h)[k][i].kind = "range" =>
                               ClauseLists(h)[k][i].lt = None
            /\ req[h].sortBy = None =>
                   \A i \in 1..Len(stages[h]) : stages[h][i].op # "$sort"
            /\ \A k \in 1..Len(ClauseLists(h)) :
                   \A i \in 1..Len(ClauseLists(h)[k]) :
                       ClauseLists(h)[k][i].kind = "text" =>
                           ClauseLists(h)[k][i].query # ""

\* A finished plan of a request with providerName alone among the text filters,
\* creatorName supplied empty: one must clause, none on the creator or type path.
C2_Witness ==
    \E h \in H :
        /\ pc[h] = "await"
        /\ WellTyped(req[h])
        /\ req[h].creatorName = Some("")
        /\ req[h].contentType = None
        /\ req[h].providerName # None
        /\ req[h].dataCoverageEnd = None
        /\ Len(stages[h][1].must) = 1

\* C3: the call for a well-typed request never raises.
C3_Total == \A h \in H : (pc[h] # "idle" /\ WellTyped(req[h])) => pc[h] # "raised"

\* C4: for positive pageNumber p and pageSize s, the skip stage counts
\* (p - 1) * s, which is not negative, and the limit stage counts s; a finished
\* plan has one of each; the defaults give skip 0 and limit 30.
C4_Pagination ==
    \A h \in H :
        (pc[h] # "idle" /\ req[h].pageNumber > 0 /\ req[h].pageSize > 0) =>
            /\ \A i \in 1..Len(stages[h]) :
                   /\ stages[h][i].op = "$skip" =>
                         /\ stages[h][i].n = (req[h].pageNumber - 1) * req[h].pageSize
                         /\ stages[h][i].n >= 0
                   /\ stages[h][i].op = "$limit" => stages[h][i].n = req[h].pageSize
            /\ Built(h) =>
                   /\ Cardinality({i \in 1..Len(stages[h]) : stages[h][i].op = "$skip"}) = 1
                   /\ Cardinality({i \in 1..Len(stages[h]) : stages[h][i].op = "$limit"}) = 1
            /\ (Built(h) /\ req[h].pageNumber = 1 /\ req[h].pageSize = 30) =>
                   \E i \in 1..Len(stages[h]) :
                       /\ stages[h][i] = [op |-> "$skip", n |-> 0]
                       /\ stages[h][i + 1] = [op |-> "$limit", n |-> 30]

\* A finished plan for page 2 of size 10: skip 10, limit 10.
C4_Witness ==
    \E h \in H :
        /\ pc[h] = "await"
        /\ WellTyped(req[h])
        /\ req[h].pageNumber = 2
        /\ req[h].pageSize = 10
        /\ stages[h][2] = [op |-> "$skip", n |-> 10]
        /\ stages[h][3] = [op |-> "$limit", n |-> 10]

\* C5: once the publication filter of a well-typed request with publishedStart = Y1 and
\* publishedEnd = Y2 has been handled, the filter list holds exactly one clause
\* on datePublished, from the start of Y1 up to, not including, the start of
\* Y2 + 1.
C5_PublishedRange ==
    \A h \in H :
        (pc[h] \notin {"idle", "published"} /\ WellTyped(req[h])
         /\ req[h].publishedStart # None /\ req[h].publishedEnd # None) =>
            /\ Cardinality({i \in 1..Len(filters[h]) :
                               filters[h][i].path = "datePublished"}) = 1
            /\ \E i \in 1..Len(filters[h]) :
                   /\ filters[h][i].path = "datePublished"
                   /\ filters[h][i].gte = Some(StartOfYear(req[h].publishedStart[1]))
                   /\ filters[h][i].lt = Some(StartOfYear(req[h].publishedEnd[1] + 1))

\* A request the handler ought to refuse.
Inverted(lo, hi) == lo # None /\ hi # None /\ lo[1] > hi[1]

InvalidRequest(r) ==
    \/ r.term = ""
    \/ r.pageNumber <= 0
    \/ r.pageSize <= 0
    \/ Inverted(r.publishedStart, r.publishedEnd)
    \/ Inverted(r.dataCoverageStart, r.dataCoverageEnd)

\* C6: for a request with a validation error no stage is built and no pipeline
\* is handed to the database.
C6_Rejected ==
    \A h \in H :
        (pc[h] # "idle" /\ InvalidRequest(req[h])) =>
            stages[h] = <<>> /\ pipeline[h] = <<>>

\* A text parameter counts as present when a non-empty value was supplied.
Present(o) == o # None /\ o[1] # ""

NumPresent(r) ==
    (IF Present(r.creatorName) THEN 1 ELSE 0)
    + (IF Present(r.providerName) THEN 1 ELSE 0)
    + (IF Present(r.contentType) THEN 1 ELSE 0)

OneClause(m, o, path) ==
    Present(o) =>
        Cardinality({i \in 1..Len(m) :
                        m[i] = [kind |-> "text", path |-> path, query |-> o[1]]}) = 1

\* C7: the must set of the search stage holds one text clause per present
\* parameter among creatorName, providerName, contentType, on
\* creator.@list.name, provider.name and @type, with the supplied value as
\* query, and nothing else.
C7_MustSet ==
    \A h \in H :
        Len(stages[h]) > 0 =>
            LET m == stages[h][1].must
            IN  /\ Len(m) = NumPresent(req[h])
                /\ OneClause(m, req[h].creatorName, "creator.@list.name")
                /\ OneClause(m, req[h].providerName, "provider.name")
                /\ OneClause(m, req[h].contentType, "@type")

\* creatorName and contentType supplied, providerName not: two must clauses.
C7_Witness ==
    \E h \in H :
        /\ pc[h] = "await"
        /\ WellTyped(req[h])
        /\ req[h].creatorName = Some("NOAA")
        /\ req[h].contentType = Some("Dataset")
        /\ req[h].providerName = None
        /\ Len(stages[h][1].must) = 2

\* C8: the pipeline handed to the database for a well-typed request is the
\* stage list built from the request.
C8_ExecutedIsCompiled ==
    \A h \in H : (pc[h] = "await" /\ WellTyped(req[h])) => pipeline[h] = stages[h]

\* C9: whatever the other calls do, the stage list a call has built is the one
\* the handler builds for its request when run alone, and a call stops with an
\* error only if it does so when run alone.
C9_Independent ==
    \A h \in H :
        /\ Built(h) => Compile(req[h]) = Some(stages[h])
        /\ pc[h] = "raised" => Compile(req[h]) = <<>>

\* Two calls with different requests have both finished their plans, each
\* with its own term and creator clause.
C9_Witness ==
    \E g, h \in H :
        /\ g # h
        /\ pc[g] = "await" /\ pc[h] = "await"
        /\ req[g].term # req[h].term
        /\ Len(stages[g][1].must) = 1 /\ Len(stages[h][1].must) = 0
        /\ stages[g][1].should[1].query = req[g].term
        /\ stages[h][1].should[1].query = req[h].term

\* C10: once the coverage filters of a well-typed request without publication filter
\* have been handled, dataCoverageStart present means the filter list is the
\* clause on temporalCoverage.start from the start of dataCoverageStart,
\* followed by the clause on temporalCoverage.end from the start of
\* dataCoverageEnd + 1; dataCoverageStart absent means no coverage clause.
C10_CoverageClauses ==
    \A h \in H :
        (PastFilters(h) /\ WellTyped(req[h]) /\ req[h].publishedStart = None) =>
            IF req[h].dataCoverageStart # None /\ req[h].dataCoverageEnd # None
            THEN filters[h] =
                   <<[kind |-> "range", path |-> "temporalCoverage.start",
                      gte |-> Some(StartOfYear(req[h].dataCoverageStart[1])),
                      lt |-> None],
                     [kind |-> "range", path |-> "temporalCoverage.end",
                      gte |-> Some(StartOfYear(req[h].dataCoverageEnd[1] + 1)),
                      lt |-> None]>>
            ELSE req[h].dataCoverageStart = None =>
                     /\ NoClauseOn(h, "temporalCoverage.start")
                     /\ NoClauseOn(h, "temporalCoverage.end")

====
